---- MODULE Spec2Model ----
(***************************************************************************)
(* The pending-verification worklist of the MistMatch admin dashboard      *)
(* (Dashboard component): queue controller, refresh timer, low-watermark   *)
(* auto-load effect and decision processing.                               *)
(*                                                                         *)
(* A pending entry is modelled by its identifier.  Identifiers are         *)
(* numbered in the order of the RecordSource query (created_at             *)
(* descending): identifier 1 is the newest record.                         *)
(*                                                                         *)
(* React semantics used by the model:                                      *)
(*  - every handler or promise continuation is one step; the state         *)
(*    updates it makes are batched into one render;                        *)
(*  - an effect runs after a render in which one of its dependencies       *)
(*    changed, as part of the same step;                                   *)
(*  - a function created in a render sees the state of that render (its    *)
(*    closure); a functional update (prev => ...) sees the current state.  *)
(***************************************************************************)
EXTENDS Integers, Sequences, FiniteSets, TLC

PAGE_SIZE == 20
LOAD_MORE_THRESHOLD == 3

\* Bounds of the model.
MaxDeviations == 3
MaxDecisions == 19
MaxOther == 1
SmallPending == 3
MaxUsers == 22
MaxShift == 3

NoUser == 0

\* Records other parties create or remove (sign-ups are the newest records).
OtherIds == 1..MaxOther
\* The pending records of the small and of the 45-entry initial RecordSource.
SmallIds == (MaxOther + 1)..(MaxOther + SmallPending)
ScenarioIds == (MaxOther + 1)..(MaxOther + 45)
Ids == OtherIds \cup SmallIds \cup ScenarioIds

VARIABLES
    mode,             \* 'dashboard' | 'user-verification'
    allPendingUsers,  \* BackingSnapshot
    queueUsers,       \* ActiveQueue
    totalPending,
    hasMore,
    currentUser,      \* identifier of the displayed entry, NoUser for null
    isUserVerifying,
    fetches,          \* loadNextBatch calls awaiting fetchPendingUsers
    writes,           \* decision writes whose .then callback has not run
    genderWrite,      \* currentUser of the handleGenderChange awaiting its update
    status,           \* RecordSource: users.is_verified per identifier
    decided,          \* history: identifiers whose decision was confirmed
    segment,          \* history: the decisions confirmed since the last fetch result
    budget,           \* history: deviations from the plain run still allowed
    last,             \* history: the step just taken
    mounted,          \* the Dashboard component is mounted (its interval is installed)
    \* Gender review screen of the Dashboard component:
    genderUsers,          \* in-memory dataset
    filteredGenderUsers,  \* derived view
    sortOrder,
    genderFilter,
    currentPage,
    totalUnknown,
    userFetches,      \* fetchAllUsers / fetchUnknownCount calls awaiting their answer
    genderUpdates,    \* handleGenderUpdate calls awaiting their update
    gender,           \* RecordSource: users.gender per identifier
    \* The Dashboard component of app/dashboard/page.tsx:
    pendingUsers,
    pageCurrentUser,
    isVerifying,
    pageLoads,        \* loadPendingUsers calls awaiting their query
    pageGenderWrite,  \* currentUser of the handleGenderChange awaiting its update
    pageWrites        \* decision writes whose .then callback has not run

\* State of the gender review screen and of the RecordSource column it edits.
genderVars == <<genderUsers, filteredGenderUsers, sortOrder, genderFilter, currentPage,
                totalUnknown, userFetches, genderUpdates, gender>>

\* State of the component of app/dashboard/page.tsx.
pageVars == <<pendingUsers, pageCurrentUser, isVerifying, pageLoads, pageGenderWrite,
              pageWrites>>

\* State of the pending-review worklist, without mode and the RecordSource.
queueVars == <<allPendingUsers, queueUsers, totalPending, hasMore, currentUser,
               isUserVerifying, fetches, writes, genderWrite, decided, segment>>

vars == <<mode, allPendingUsers, queueUsers, totalPending, hasMore, currentUser,
          isUserVerifying, fetches, writes, genderWrite, status, decided, segment, budget,
          last, mounted, genderVars, pageVars>>

Min2(a, b) == IF a < b THEN a ELSE b
Max2(a, b) == IF a > b THEN a ELSE b

Range(s) == {s[i] : i \in 1..Len(s)}

\* Array.prototype.slice(a, b) for 0 <= a, 0 <= b.
Slice(s, a, b) == IF a >= Min2(b, Len(s)) THEN <<>> ELSE SubSeq(s, a + 1, Min2(b, Len(s)))

\* Array.prototype.filter(u => u.id !== id)
RemoveId(s, id) == SelectSeq(s, LAMBDA u : u # id)

RemoveAt(s, i) == SubSeq(s, 1, i - 1) \o SubSeq(s, i + 1, Len(s))

IdSeq == [i \in 1..Cardinality(Ids) |-> i]

\* select ... eq('is_verified', 'pending') order by created_at descending
PendingSnapshot(st) == SelectSeq(IdSeq, LAMBDA i : st[i] = "pending")

\* What the first render's closures see (useState initial values): the
\* mount effect, and the interval it installs, call this render's loadNextBatch.
MountQueueLength == Len(<<>>)
MountIsUserVerifying == FALSE

\* A call of loadNextBatch(refresh) made from a render whose queueUsers.length
\* is start and whose isUserVerifying is verifying, suspended at its await.
LoadNextBatchCall(refresh, start, verifying) ==
    [refresh |-> refresh, start |-> start, verifying |-> verifying,
     phase |-> "sent", ok |-> TRUE, users |-> <<>>, total |-> 0]

Step(op, ok, refresh) == [op |-> op, ok |-> ok, refresh |-> refresh]

\* The plain run loads the queue and approves entry after entry.  A refresh
\* tick, a failure, a rejection, a second click on the same entry, leaving the
\* review screen, a gender change and a change made by another party are
\* deviations from it; a behaviour holds at most budget of them.
DeviationKinds == {"tick", "fault", "reject", "again", "back", "gender", "churn"}

Deviations(kinds) ==
    /\ kinds \subseteq budget.kinds
    /\ budget.left >= Cardinality(kinds)
    /\ budget' = [budget EXCEPT !.left = @ - Cardinality(kinds)]

Deviation(kind) == Deviations({kind})

DeviationIf(cond, kind) == Deviations(IF cond THEN {kind} ELSE {})

\* users.gender: null, the empty string, the two values the dashboard writes,
\* and a value written by another client.
NoGender == "null"
Genders == {NoGender, "", "Male", "Female", "Other"}

\* The records of the users table shown by the gender review screen.
GenderIds == 1..MaxUsers

\* The gender column when the dashboard is opened.
InitialGender ==
    [i \in GenderIds |-> CASE i % 5 = 0 -> "Other"
                           [] i % 5 = 1 -> NoGender
                           [] i % 5 = 2 -> "Male"
                           [] i % 5 = 3 -> "Female"
                           [] OTHER -> IF i % 2 = 0 THEN "" ELSE NoGender]

\* Other contents of the gender column: the same values laid out with a
\* different stride, numbered 0..MaxShift; number 0 is InitialGender.
DatasetGender(shift) ==
    [i \in GenderIds |-> InitialGender[((i * (shift + 1) - 1) % MaxUsers) + 1]]

\* .is('gender', null) with count: 'exact'
UnknownCount(g) == Cardinality({i \in GenderIds : g[i] = NoGender})

\* fetchUnknownCount().then(setTotalUnknown), up to the answer to its query.
UnknownCountCall == [kind |-> "count", phase |-> "sent", count |-> 0, users |-> <<>>]

\* fetchAllUsers().then(setGenderUsers), up to the answer to its query.
AllUsersCall == [kind |-> "users", phase |-> "sent", count |-> 0, users |-> <<>>]

\* An interval that no cleanup would clear.
IntervalNeverCleared == TRUE

\* The interval of the mount effect runs until the cleanup clears it.
IntervalRuns == mounted

\* The component of app/dashboard/page.tsx is not rendered.
PageAbsent ==
    /\ pendingUsers = <<>>
    /\ pageCurrentUser = NoUser
    /\ isVerifying = FALSE
    /\ pageLoads = <<>>
    /\ pageGenderWrite = NoUser
    /\ pageWrites = <<>>

\* The component after its first render and mount effect, over one of the
\* contents of the gender column.
InitComponent ==
    /\ mounted = TRUE
    /\ genderUsers = <<>>
    /\ filteredGenderUsers = <<>>
    /\ sortOrder = "desc"
    /\ genderFilter = "all"
    /\ currentPage = 1
    /\ totalUnknown = 0
    /\ userFetches = <<UnknownCountCall>>
    /\ genderUpdates = <<>>
    /\ gender \in {DatasetGender(shift) : shift \in 0..MaxShift}
    /\ PageAbsent
    /\ mode = "dashboard"
    /\ allPendingUsers = <<>>
    /\ queueUsers = <<>>
    /\ totalPending = 0
    /\ hasMore = TRUE
    /\ currentUser = NoUser
    /\ isUserVerifying = FALSE
    /\ fetches = <<LoadNextBatchCall(FALSE, MountQueueLength, MountIsUserVerifying)>>
    /\ writes = <<>>
    /\ genderWrite = NoUser
    /\ decided = {}
    /\ segment = [base |-> 0, ids |-> {}, clean |-> TRUE]
    /\ last = Step("mount", TRUE, FALSE)

\* The mounted component over the gender column InitialGender.
InitCommon ==
    /\ InitComponent
    /\ gender = InitialGender

Init ==
    /\ InitCommon
    /\ status = [i \in Ids |-> IF i \in SmallIds THEN "pending" ELSE "absent"]
    /\ budget = [left |-> MaxDeviations, kinds |-> DeviationKinds]

\* The 45-entry RecordSource, reviewed entry after entry in the plain run.
InitScenario ==
    /\ InitCommon
    /\ status = [i \in Ids |-> IF i \in ScenarioIds THEN "pending" ELSE "absent"]
    /\ budget = [left |-> 0, kinds |-> {}]

\* The 45-entry RecordSource under refresh ticks, failures and changes made by
\* other parties, with the review screen entered and left.
InitRefresh ==
    /\ InitCommon
    /\ status = [i \in Ids |-> IF i \in ScenarioIds THEN "pending" ELSE "absent"]
    /\ budget = [left |-> MaxDeviations, kinds |-> {"tick", "fault", "churn", "back"}]

\* The dependencies of the auto-load effect differ from the previous render's.
AutoLoadDepsChanged ==
    <<Len(queueUsers'), isUserVerifying', hasMore'>> # <<Len(queueUsers), isUserVerifying, hasMore>>

AutoLoadCondition ==
    isUserVerifying' /\ Len(queueUsers') <= LOAD_MORE_THRESHOLD /\ hasMore'

\* The render after a step: the auto-load effect, given the calls fs left in flight.
AutoLoadEffect(fs) ==
    fetches' = IF AutoLoadDepsChanged /\ AutoLoadCondition
               THEN Append(fs, LoadNextBatchCall(FALSE, Len(queueUsers'), isUserVerifying'))
               ELSE fs

\* fetchPendingUsers: what the RecordSource answers to the query.
FetchedUsers(ok) == IF ok THEN PendingSnapshot(status) ELSE <<>>

FetchedTotal(ok) == IF ok THEN Len(PendingSnapshot(status)) ELSE 0

Answered(f, ok) ==
    [f EXCEPT !.phase = "done", !.ok = ok, !.users = FetchedUsers(ok), !.total = FetchedTotal(ok)]

\* setInterval callback: loadNextBatch(true) of the mount render, up to the
\* answer to its query, and fetchUnknownCount(), up to the answer to its
\* query.  The calls keep nothing of the state they are made in, so the moment
\* of the tick cannot be told from the moment of the answers: they are one step.
RefreshTick(ok) ==
    /\ IntervalRuns
    /\ Deviations({"tick"} \cup IF ok THEN {} ELSE {"fault"})
    /\ fetches' = Append(fetches, Answered(LoadNextBatchCall(TRUE, MountQueueLength,
                                                              MountIsUserVerifying), ok))
    /\ userFetches' = Append(userFetches,
                             [UnknownCountCall EXCEPT !.phase = "done",
                                                      !.count = UnknownCount(gender)])
    /\ last' = Step("RefreshTick", ok, TRUE)
    /\ UNCHANGED <<mode, allPendingUsers, queueUsers, totalPending, hasMore, currentUser,
                   isUserVerifying, writes, genderWrite, status, decided, segment>>
    /\ UNCHANGED <<mounted, genderUsers, filteredGenderUsers, sortOrder, genderFilter,
                   currentPage, totalUnknown, genderUpdates, gender, pageVars>>

\* fetchPendingUsers: the RecordSource answers the query of call i.
FetchPendingUsers(i, ok) ==
    /\ i \in 1..Len(fetches)
    /\ fetches[i].phase = "sent"
    /\ DeviationIf(~ok, "fault")
    /\ fetches' = [fetches EXCEPT ![i] = Answered(fetches[i], ok)]
    /\ last' = Step("FetchPendingUsers", ok, fetches[i].refresh)
    /\ UNCHANGED <<mode, allPendingUsers, queueUsers, totalPending, hasMore, currentUser,
                   isUserVerifying, writes, genderWrite, status, decided, segment>>
    /\ UNCHANGED <<mounted, genderVars, pageVars>>

\* A refresh that would keep the whole snapshot as the queue.
RefreshBatchAll(users) == users

\* users.slice(0, PAGE_SIZE)
RefreshBatch(users) == Slice(users, 0, PAGE_SIZE)

\* An append that would only refill the queue up to one batch.
NextBatchRefill(users, start) == Slice(users, start, PAGE_SIZE)

\* users.slice(start, start + PAGE_SIZE)
NextBatch(users, start) == Slice(users, start, start + PAGE_SIZE)

\* The isUserVerifying that the refresh branch of call f tests.
RefreshSeesVerifying(f) == f.verifying

\* loadNextBatch after its await, for call i.
LoadNextBatch(i) ==
    /\ mounted
    /\ i \in 1..Len(fetches)
    /\ fetches[i].phase = "done"
    /\ LET f == fetches[i]
           users == f.users
       IN  /\ totalPending' = f.total
           /\ allPendingUsers' = users
           /\ IF f.refresh
              THEN IF ~RefreshSeesVerifying(f)
                   THEN /\ queueUsers' = RefreshBatch(users)
                        /\ hasMore' = (Len(users) > PAGE_SIZE)
                   ELSE UNCHANGED <<queueUsers, hasMore>>
              ELSE /\ queueUsers' = queueUsers \o NextBatch(users, f.start)
                   /\ hasMore' = (f.start + Len(NextBatch(users, f.start)) < Len(users))
           /\ last' = Step("LoadNextBatch", f.ok, f.refresh)
           /\ segment' = [base |-> f.total, ids |-> {}, clean |-> TRUE]
    /\ UNCHANGED <<mode, currentUser, isUserVerifying, writes, genderWrite, status, decided,
                   budget>>
    /\ AutoLoadEffect(RemoveAt(fetches, i))
    /\ UNCHANGED <<mounted, genderVars, pageVars>>

\* "Verify Users" button: setMode('user-verification'); startVerification()
StartVerification ==
    /\ mounted
    /\ mode = "dashboard"
    /\ Len(queueUsers) # 0
    /\ mode' = "user-verification"
    /\ isUserVerifying' = TRUE
    /\ currentUser' = queueUsers[1]
    /\ last' = Step("StartVerification", TRUE, FALSE)
    /\ UNCHANGED <<allPendingUsers, queueUsers, totalPending, hasMore, writes, genderWrite,
                   status, decided, segment, budget>>
    /\ AutoLoadEffect(fetches)
    /\ UNCHANGED <<mounted, genderVars, pageVars>>

\* "Back to Dashboard" button of the review screen.
BackToDashboard ==
    /\ mounted
    /\ mode = "user-verification"
    /\ Deviation("back")
    /\ isUserVerifying' = FALSE
    /\ mode' = "dashboard"
    /\ last' = Step("BackToDashboard", TRUE, FALSE)
    /\ UNCHANGED <<allPendingUsers, queueUsers, totalPending, hasMore, currentUser, writes,
                   genderWrite, status, decided, segment>>
    /\ AutoLoadEffect(fetches)
    /\ UNCHANGED <<mounted, genderVars, pageVars>>

\* decision === 'verified' ? 'verified' : 'unverified'
WrittenStatus(decision) == IF decision = "verified" THEN "verified" ELSE "unverified"

\* APPROVE / REJECT button: handleDecision up to the update it sends.  The
\* callback it registers keeps this render's currentUser and queueUsers.
HandleDecision(decision) ==
    /\ mounted
    /\ mode = "user-verification"
    /\ currentUser # NoUser
    /\ Cardinality(decided) + Len(writes) < MaxDecisions
    /\ IF decision = "rejected"
       THEN Deviation("reject")
       ELSE DeviationIf(\E i \in 1..Len(writes) : writes[i].id = currentUser, "again")
    /\ writes' = Append(writes, [id |-> currentUser, decision |-> decision,
                                 queue |-> queueUsers, phase |-> "sent"])
    /\ last' = Step("HandleDecision", TRUE, FALSE)
    /\ UNCHANGED <<mode, allPendingUsers, queueUsers, totalPending, hasMore, currentUser,
                   isUserVerifying, fetches, genderWrite, status, decided, segment>>
    /\ UNCHANGED <<mounted, genderVars, pageVars>>

\* The RecordSource performs, or fails, the update of write i.
DecisionUpdate(i, ok) ==
    /\ i \in 1..Len(writes)
    /\ writes[i].phase = "sent"
    /\ DeviationIf(~ok, "fault")
    /\ writes' = [writes EXCEPT ![i].phase = IF ok THEN "ok" ELSE "error"]
    /\ status' = IF ok
                 THEN [status EXCEPT ![writes[i].id] = WrittenStatus(writes[i].decision)]
                 ELSE status
    /\ last' = Step("DecisionUpdate", ok, FALSE)
    /\ UNCHANGED <<mode, allPendingUsers, queueUsers, totalPending, hasMore, currentUser,
                   isUserVerifying, fetches, genderWrite, decided, segment>>
    /\ UNCHANGED <<mounted, genderVars, pageVars>>

\* The queue the .then callback of write w filters.
DecisionSeesQueue(w) == w.queue

\* queueUsers.filter(u => u.id !== currentUser.id)
RemainingQueue(w) == RemoveId(DecisionSeesQueue(w), w.id)

\* A callback that would display the last entry of the remaining queue.
NextDisplayedLast(remainingQueue) == remainingQueue[Len(remainingQueue)]

\* setCurrentUser(remainingQueue[0])
NextDisplayed(remainingQueue) == remainingQueue[1]

\* Whether the .then callback of write w runs its body: the update's promise
\* resolves with { error } whether or not the write succeeded.
DecisionCallbackRuns(w) == w.phase \in {"ok", "error"}

\* The .then callback of handleDecision, for write i.
DecisionThen(i) ==
    /\ mounted
    /\ i \in 1..Len(writes)
    /\ writes[i].phase # "sent"
    /\ LET w == writes[i]
           remainingQueue == RemainingQueue(w)
       IN  /\ IF DecisionCallbackRuns(w)
              THEN /\ queueUsers' = remainingQueue
                   /\ totalPending' = Max2(0, totalPending - 1)
                   /\ IF Len(remainingQueue) > 0
                      THEN /\ currentUser' = NextDisplayed(remainingQueue)
                           /\ UNCHANGED <<isUserVerifying, mode>>
                      ELSE /\ currentUser' = NoUser
                           /\ isUserVerifying' = FALSE
                           /\ mode' = "dashboard"
              ELSE UNCHANGED <<queueUsers, totalPending, currentUser, isUserVerifying, mode>>
           /\ decided' = IF w.phase = "ok" THEN decided \cup {w.id} ELSE decided
           /\ segment' = IF w.phase = "ok" /\ w.id \in Range(queueUsers) /\ w.id \notin segment.ids
                         THEN [segment EXCEPT !.ids = @ \cup {w.id}]
                         ELSE [segment EXCEPT !.clean = FALSE]
           /\ last' = Step("DecisionThen", w.phase = "ok", FALSE)
    /\ writes' = RemoveAt(writes, i)
    /\ UNCHANGED <<allPendingUsers, hasMore, genderWrite, status, budget>>
    /\ AutoLoadEffect(fetches)
    /\ UNCHANGED <<mounted, genderVars, pageVars>>

\* Gender dropdown of the review screen: handleGenderChange up to its await.
\* The select is disabled while genderUpdateStatus is 'saving'.
HandleGenderChange ==
    /\ mounted
    /\ mode = "user-verification"
    /\ currentUser # NoUser
    /\ genderWrite = NoUser
    /\ Deviation("gender")
    /\ genderWrite' = currentUser
    /\ last' = Step("HandleGenderChange", TRUE, FALSE)
    /\ UNCHANGED <<mode, allPendingUsers, queueUsers, totalPending, hasMore, currentUser,
                   isUserVerifying, fetches, writes, status, decided, segment>>
    /\ UNCHANGED <<mounted, genderVars, pageVars>>

\* handleGenderChange after its await: setCurrentUser({ ...currentUser, gender })
\* with the currentUser of the render that started it; the queue keeps its
\* identifiers.
GenderChangeSettles(ok) ==
    /\ mounted
    /\ genderWrite # NoUser
    /\ DeviationIf(~ok, "fault")
    /\ genderWrite' = NoUser
    /\ currentUser' = IF ok THEN genderWrite ELSE currentUser
    /\ last' = Step("GenderChangeSettles", ok, FALSE)
    /\ UNCHANGED <<mode, allPendingUsers, queueUsers, totalPending, hasMore, isUserVerifying,
                   fetches, writes, status, decided, segment>>
    /\ UNCHANGED <<mounted, genderVars, pageVars>>

\* Another party adds a pending record (a sign-up) to the RecordSource.
RemoteGain(id) ==
    /\ id \in OtherIds
    /\ status[id] = "absent"
    /\ Deviation("churn")
    /\ status' = [status EXCEPT ![id] = "pending"]
    /\ last' = Step("RemoteGain", TRUE, FALSE)
    /\ UNCHANGED <<mode, allPendingUsers, queueUsers, totalPending, hasMore, currentUser,
                   isUserVerifying, fetches, writes, genderWrite, decided, segment>>
    /\ UNCHANGED <<mounted, genderVars, pageVars>>

\* Another party takes a record out of the pending set.
RemoteLose(id) ==
    /\ id \in OtherIds
    /\ status[id] = "pending"
    /\ Deviation("churn")
    /\ status' = [status EXCEPT ![id] = "absent"]
    /\ last' = Step("RemoteLose", TRUE, FALSE)
    /\ UNCHANGED <<mode, allPendingUsers, queueUsers, totalPending, hasMore, currentUser,
                   isUserVerifying, fetches, writes, genderWrite, decided, segment>>
    /\ UNCHANGED <<mounted, genderVars, pageVars>>

\* The page is left (Logout, navigation): the component unmounts and the
\* cleanup of the mount effect clears the interval.  Requests in flight are
\* not cancelled.
Unmount ==
    /\ mounted
    /\ mounted' = FALSE
    /\ last' = Step("Unmount", TRUE, FALSE)
    /\ UNCHANGED <<mode, queueVars, status, budget, genderVars, pageVars>>

\* loadNextBatch after its await, the component being unmounted: React drops
\* the state updates of an unmounted component.
LoadNextBatchUnmounted(i) ==
    /\ ~mounted
    /\ i \in 1..Len(fetches)
    /\ fetches[i].phase = "done"
    /\ fetches' = RemoveAt(fetches, i)
    /\ last' = Step("LoadNextBatchUnmounted", fetches[i].ok, fetches[i].refresh)
    /\ UNCHANGED <<mode, allPendingUsers, queueUsers, totalPending, hasMore, currentUser,
                   isUserVerifying, writes, genderWrite, status, decided, segment, budget>>
    /\ UNCHANGED <<mounted, genderVars, pageVars>>

\* The .then callback of handleDecision, the component being unmounted.
DecisionThenUnmounted(i) ==
    /\ ~mounted
    /\ i \in 1..Len(writes)
    /\ writes[i].phase # "sent"
    /\ writes' = RemoveAt(writes, i)
    /\ last' = Step("DecisionThenUnmounted", writes[i].phase = "ok", FALSE)
    /\ UNCHANGED <<mode, allPendingUsers, queueUsers, totalPending, hasMore, currentUser,
                   isUserVerifying, fetches, genderWrite, status, decided, segment, budget>>
    /\ UNCHANGED <<mounted, genderVars, pageVars>>

(***************************************************************************)
(* The gender review screen of the Dashboard component.  A record of the   *)
(* dataset is its identifier and its gender; identifier 1 is the newest.   *)
(***************************************************************************)

\* The step just taken by the gender review screen, and the page shown before it.
PageStep(op, ok) == [op |-> op, ok |-> ok, refresh |-> FALSE, page |-> currentPage]

\* new Date(u.created_at).getTime(): a newer record has a later time.
CreatedAt(id) == 0 - id

\* select('*').order('created_at', { ascending: false }): the rows of 'users'.
AllUsers(g) == [i \in GenderIds |-> [id |-> i, gender |-> g[i]]]

\* !u.gender
Unset(g) == g \in {NoGender, ""}

\* A filter that would match a named gender loosely: any record with a gender.
KeepsLoosely(u, filter) ==
    IF filter = "all" THEN TRUE
    ELSE IF filter = "unknown" THEN Unset(u.gender) ELSE ~Unset(u.gender)

\* The filter callback of the derived view.
Keeps(u, filter) ==
    IF filter = "all" THEN TRUE
    ELSE IF filter = "unknown" THEN Unset(u.gender) ELSE u.gender = filter

\* The comparator of filtered.sort: a comes before b.
Before(a, b, order) ==
    IF order = "asc" THEN CreatedAt(a.id) < CreatedAt(b.id)
                     ELSE CreatedAt(b.id) < CreatedAt(a.id)

RECURSIVE Insert(_, _, _)
Insert(u, sorted, order) ==
    IF sorted = <<>> THEN <<u>>
    ELSE IF Before(u, Head(sorted), order) THEN <<u>> \o sorted
    ELSE <<Head(sorted)>> \o Insert(u, Tail(sorted), order)

\* filtered.sort(...)
RECURSIVE SortUsers(_, _)
SortUsers(users, order) ==
    IF users = <<>> THEN <<>>
    ELSE Insert(Head(users), SortUsers(Tail(users), order), order)

\* The derived view: filter, then sort.
DerivedView(users, filter, order) ==
    SortUsers(SelectSeq(users, LAMBDA u : Keeps(u, filter)), order)

\* Math.ceil(filteredGenderUsers.length / PAGE_SIZE)
TotalPages(view) == (Len(view) + PAGE_SIZE - 1) \div PAGE_SIZE

\* filteredGenderUsers.slice((currentPage - 1) * PAGE_SIZE, currentPage * PAGE_SIZE)
PaginatedUsers == Slice(filteredGenderUsers, (currentPage - 1) * PAGE_SIZE, currentPage * PAGE_SIZE)

\* A derived-view effect that would keep the page.
PageKept(page) == page

\* setCurrentPage(1)
PageAfterReset(page) == 1

\* An effect that would not depend on sortOrder.
DerivedDepsChangedNoSort(datasetSet) == datasetSet \/ genderFilter' # genderFilter

\* The dependencies [genderUsers, genderFilter, sortOrder] of the derived-view
\* effect differ from the previous render's; datasetSet: setGenderUsers was
\* called (always with a new array).
DerivedDepsChanged(datasetSet) ==
    datasetSet \/ genderFilter' # genderFilter \/ sortOrder' # sortOrder

\* The render after a step: the derived-view effect.  newPage is the page the
\* step itself set.
DerivedViewEffect(datasetSet, newPage) ==
    IF DerivedDepsChanged(datasetSet)
    THEN /\ filteredGenderUsers' = DerivedView(genderUsers', genderFilter', sortOrder')
         /\ currentPage' = PageAfterReset(newPage)
    ELSE /\ UNCHANGED filteredGenderUsers
         /\ currentPage' = newPage

\* "Verify Genders" button: setMode('gender-verification'); the effect on
\* [mode] calls fetchAllUsers().then(setGenderUsers) and setCurrentPage(1).
VerifyGenders ==
    /\ mounted
    /\ mode = "dashboard"
    /\ Deviation("enter")
    /\ mode' = "gender-verification"
    /\ userFetches' = Append(userFetches, AllUsersCall)
    /\ UNCHANGED <<genderUsers, genderFilter, sortOrder>>
    /\ DerivedViewEffect(FALSE, 1)
    /\ last' = PageStep("VerifyGenders", TRUE)
    /\ UNCHANGED <<totalUnknown, genderUpdates, gender, queueVars, status, mounted, pageVars>>

\* Back button of the gender review screen: setMode('dashboard')
GenderBack ==
    /\ mounted
    /\ mode = "gender-verification"
    /\ mode' = "dashboard"
    /\ last' = PageStep("GenderBack", TRUE)
    /\ UNCHANGED <<genderVars, queueVars, status, budget, mounted, pageVars>>

\* The RecordSource answers call i: fetchAllUsers returns data || [],
\* fetchUnknownCount returns count || 0.
UserFetchAnswer(i, ok) ==
    /\ i \in 1..Len(userFetches)
    /\ userFetches[i].phase = "sent"
    /\ DeviationIf(~ok, "fault")
    /\ userFetches' = [userFetches EXCEPT
                          ![i].phase = "done",
                          ![i].count = IF ok /\ userFetches[i].kind = "count"
                                       THEN UnknownCount(gender) ELSE 0,
                          ![i].users = IF ok /\ userFetches[i].kind = "users"
                                       THEN AllUsers(gender) ELSE <<>>]
    /\ last' = PageStep("UserFetchAnswer", ok)
    /\ UNCHANGED <<genderUsers, filteredGenderUsers, sortOrder, genderFilter, currentPage,
                   totalUnknown, genderUpdates, gender>>
    /\ UNCHANGED <<mode, queueVars, status, mounted, pageVars>>

\* .then(setGenderUsers) / .then(setTotalUnknown) of call i.
UserFetchThen(i) ==
    /\ mounted
    /\ i \in 1..Len(userFetches)
    /\ userFetches[i].phase = "done"
    /\ userFetches' = RemoveAt(userFetches, i)
    /\ IF userFetches[i].kind = "users"
       THEN /\ genderUsers' = userFetches[i].users
            /\ UNCHANGED totalUnknown
       ELSE /\ totalUnknown' = userFetches[i].count
            /\ UNCHANGED genderUsers
    /\ UNCHANGED <<genderFilter, sortOrder>>
    /\ DerivedViewEffect(userFetches[i].kind = "users", currentPage)
    /\ last' = PageStep("UserFetchThen", TRUE)
    /\ UNCHANGED <<genderUpdates, gender, mode, queueVars, status, budget, mounted, pageVars>>

\* Filter select: setGenderFilter(e.target.value)
SetGenderFilter(filter) ==
    /\ mounted
    /\ mode = "gender-verification"
    /\ filter # genderFilter
    /\ genderFilter' = filter
    /\ UNCHANGED <<genderUsers, sortOrder>>
    /\ DerivedViewEffect(FALSE, currentPage)
    /\ last' = PageStep("SetGenderFilter", TRUE)
    /\ UNCHANGED <<totalUnknown, userFetches, genderUpdates, gender>>
    /\ UNCHANGED <<mode, queueVars, status, budget, mounted, pageVars>>

\* Sort select: setSortOrder(e.target.value)
SetSortOrder(order) ==
    /\ mounted
    /\ mode = "gender-verification"
    /\ order # sortOrder
    /\ sortOrder' = order
    /\ UNCHANGED <<genderUsers, genderFilter>>
    /\ DerivedViewEffect(FALSE, currentPage)
    /\ last' = PageStep("SetSortOrder", TRUE)
    /\ UNCHANGED <<totalUnknown, userFetches, genderUpdates, gender>>
    /\ UNCHANGED <<mode, queueVars, status, budget, mounted, pageVars>>

\* Previous button: setCurrentPage(prev => Math.max(1, prev - 1))
PreviousPageClick ==
    /\ mounted
    /\ mode = "gender-verification"
    /\ TotalPages(filteredGenderUsers) > 0
    /\ currentPage # 1
    /\ UNCHANGED <<genderUsers, genderFilter, sortOrder>>
    /\ DerivedViewEffect(FALSE, Max2(1, currentPage - 1))
    /\ last' = PageStep("PreviousPageClick", TRUE)
    /\ UNCHANGED <<totalUnknown, userFetches, genderUpdates, gender>>
    /\ UNCHANGED <<mode, queueVars, status, budget, mounted, pageVars>>

\* Next button: setCurrentPage(prev => Math.min(totalPages, prev + 1))
NextPageClick ==
    /\ mounted
    /\ mode = "gender-verification"
    /\ TotalPages(filteredGenderUsers) > 0
    /\ currentPage # TotalPages(filteredGenderUsers)
    /\ UNCHANGED <<genderUsers, genderFilter, sortOrder>>
    /\ DerivedViewEffect(FALSE, Min2(TotalPages(filteredGenderUsers), currentPage + 1))
    /\ last' = PageStep("NextPageClick", TRUE)
    /\ UNCHANGED <<totalUnknown, userFetches, genderUpdates, gender>>
    /\ UNCHANGED <<mode, queueVars, status, budget, mounted, pageVars>>

\* Male / Female button of a card of the current page (the first or the last
\* one): handleGenderUpdate up to its await.
HandleGenderUpdate(k, newGender) ==
    /\ mounted
    /\ mode = "gender-verification"
    /\ k \in 1..Len(PaginatedUsers)
    /\ Deviation("update")
    /\ genderUpdates' = Append(genderUpdates, [id |-> PaginatedUsers[k].id,
                                               gender |-> newGender, phase |-> "sent"])
    /\ last' = PageStep("HandleGenderUpdate", TRUE)
    /\ UNCHANGED <<genderUsers, filteredGenderUsers, sortOrder, genderFilter, currentPage,
                   totalUnknown, userFetches, gender>>
    /\ UNCHANGED <<mode, queueVars, status, mounted, pageVars>>

\* The RecordSource performs, or fails, the update of call i.
GenderUpdateAnswer(i, ok) ==
    /\ i \in 1..Len(genderUpdates)
    /\ genderUpdates[i].phase = "sent"
    /\ genderUpdates' = [genderUpdates EXCEPT ![i].phase = IF ok THEN "ok" ELSE "error"]
    /\ gender' = IF ok THEN [gender EXCEPT ![genderUpdates[i].id] = genderUpdates[i].gender]
                 ELSE gender
    /\ last' = PageStep("GenderUpdateAnswer", ok)
    /\ UNCHANGED <<genderUsers, filteredGenderUsers, sortOrder, genderFilter, currentPage,
                   totalUnknown, userFetches>>
    /\ UNCHANGED <<mode, queueVars, status, budget, mounted, pageVars>>

\* An update handler that would not look at the error.
UpdateAppliedAlways(w) == TRUE

\* if (error) { console.error(...) } else { ... }
UpdateApplied(w) == w.phase = "ok"

\* A patch that would give every record the new gender.
PatchGenderAll(users, userId, newGender) ==
    [k \in 1..Len(users) |-> [users[k] EXCEPT !.gender = newGender]]

\* prev.map(u => (u.id === userId ? { ...u, gender: newGender } : u))
PatchGender(users, userId, newGender) ==
    [k \in 1..Len(users) |->
        IF users[k].id = userId THEN [users[k] EXCEPT !.gender = newGender] ELSE users[k]]

\* handleGenderUpdate after its await, for call i.
HandleGenderUpdateSettles(i) ==
    /\ mounted
    /\ i \in 1..Len(genderUpdates)
    /\ genderUpdates[i].phase # "sent"
    /\ genderUpdates' = RemoveAt(genderUpdates, i)
    /\ UNCHANGED <<genderFilter, sortOrder>>
    /\ IF UpdateApplied(genderUpdates[i])
       THEN /\ genderUsers' = PatchGender(genderUsers, genderUpdates[i].id,
                                          genderUpdates[i].gender)
            /\ totalUnknown' = Max2(0, totalUnknown - 1)
            /\ DerivedViewEffect(TRUE, currentPage)
       ELSE /\ UNCHANGED <<genderUsers, totalUnknown>>
            /\ DerivedViewEffect(FALSE, currentPage)
    /\ last' = PageStep("HandleGenderUpdateSettles", genderUpdates[i].phase = "ok")
    /\ UNCHANGED <<userFetches, gender, mode, queueVars, status, budget, mounted, pageVars>>

(***************************************************************************)
(* The Dashboard component of app/dashboard/page.tsx: one list of pending  *)
(* users, reloaded whole at mount and by the interval.                     *)
(***************************************************************************)

\* loadPendingUsers up to its await.
LoadPendingUsersCall == [phase |-> "sent", ok |-> TRUE, users |-> <<>>]

\* setInterval callback of page.tsx: loadPendingUsers()
PageTick ==
    /\ Deviation("tick")
    /\ pageLoads' = Append(pageLoads, LoadPendingUsersCall)
    /\ last' = Step("PageTick", TRUE, TRUE)
    /\ UNCHANGED <<pendingUsers, pageCurrentUser, isVerifying, pageGenderWrite, pageWrites>>
    /\ UNCHANGED <<mode, queueVars, status, mounted, genderVars>>

\* The RecordSource answers the query of loadPendingUsers call i.
PageQuery(i, ok) ==
    /\ i \in 1..Len(pageLoads)
    /\ pageLoads[i].phase = "sent"
    /\ DeviationIf(~ok, "fault")
    /\ pageLoads' = [pageLoads EXCEPT ![i] = [phase |-> "done", ok |-> ok,
                                              users |-> FetchedUsers(ok)]]
    /\ last' = Step("PageQuery", ok, FALSE)
    /\ UNCHANGED <<pendingUsers, pageCurrentUser, isVerifying, pageGenderWrite, pageWrites>>
    /\ UNCHANGED <<mode, queueVars, status, mounted, genderVars>>

\* loadPendingUsers after its await: setPendingUsers([]) on error,
\* setPendingUsers(usersWithPhotos) otherwise.
LoadPendingUsers(i) ==
    /\ i \in 1..Len(pageLoads)
    /\ pageLoads[i].phase = "done"
    /\ pendingUsers' = IF pageLoads[i].ok THEN pageLoads[i].users ELSE <<>>
    /\ pageLoads' = RemoveAt(pageLoads, i)
    /\ last' = Step("LoadPendingUsers", pageLoads[i].ok, FALSE)
    /\ UNCHANGED <<pageCurrentUser, isVerifying, pageGenderWrite, pageWrites>>
    /\ UNCHANGED <<mode, queueVars, status, budget, mounted, genderVars>>

\* startVerification of page.tsx; its button is disabled on an empty list.
PageStartVerification ==
    /\ ~isVerifying
    /\ Len(pendingUsers) # 0
    /\ isVerifying' = TRUE
    /\ pageCurrentUser' = pendingUsers[1]
    /\ last' = Step("PageStartVerification", TRUE, FALSE)
    /\ UNCHANGED <<pendingUsers, pageLoads, pageGenderWrite, pageWrites>>
    /\ UNCHANGED <<mode, queueVars, status, budget, mounted, genderVars>>

\* Back button of the review screen of page.tsx: setIsVerifying(false)
PageBack ==
    /\ isVerifying
    /\ Deviation("back")
    /\ isVerifying' = FALSE
    /\ last' = Step("PageBack", TRUE, FALSE)
    /\ UNCHANGED <<pendingUsers, pageCurrentUser, pageLoads, pageGenderWrite, pageWrites>>
    /\ UNCHANGED <<mode, queueVars, status, mounted, genderVars>>

\* update({ is_verified: decision })
PageWrittenStatus(decision) == decision

\* handleDecision of page.tsx up to the update it sends.
PageHandleDecision(decision) ==
    /\ isVerifying
    /\ pageCurrentUser # NoUser
    /\ IF decision = "rejected"
       THEN Deviation("reject")
       ELSE DeviationIf(\E i \in 1..Len(pageWrites) : pageWrites[i].id = pageCurrentUser,
                        "again")
    /\ pageWrites' = Append(pageWrites, [id |-> pageCurrentUser, decision |-> decision,
                                         queue |-> pendingUsers, phase |-> "sent"])
    /\ last' = Step("PageHandleDecision", TRUE, FALSE)
    /\ UNCHANGED <<pendingUsers, pageCurrentUser, isVerifying, pageLoads, pageGenderWrite>>
    /\ UNCHANGED <<mode, queueVars, status, mounted, genderVars>>

\* The RecordSource performs, or fails, the update of write i of page.tsx.
PageDecisionUpdate(i, ok) ==
    /\ i \in 1..Len(pageWrites)
    /\ pageWrites[i].phase = "sent"
    /\ DeviationIf(~ok, "fault")
    /\ pageWrites' = [pageWrites EXCEPT ![i].phase = IF ok THEN "ok" ELSE "error"]
    /\ status' = IF ok
                 THEN [status EXCEPT ![pageWrites[i].id] =
                                         PageWrittenStatus(pageWrites[i].decision)]
                 ELSE status
    /\ last' = Step("PageDecisionUpdate", ok, pageWrites[i].decision = "rejected")
    /\ UNCHANGED <<pendingUsers, pageCurrentUser, isVerifying, pageLoads, pageGenderWrite>>
    /\ UNCHANGED <<mode, queueVars, mounted, genderVars>>

\* updatePromise.then callback of page.tsx, for write i.
PageDecisionThen(i) ==
    /\ i \in 1..Len(pageWrites)
    /\ pageWrites[i].phase # "sent"
    /\ LET remaining == RemoveId(pageWrites[i].queue, pageWrites[i].id)
       IN  /\ pendingUsers' = remaining
           /\ IF Len(remaining) > 0
              THEN pageCurrentUser' = remaining[1] /\ UNCHANGED isVerifying
              ELSE pageCurrentUser' = NoUser /\ isVerifying' = FALSE
    /\ pageWrites' = RemoveAt(pageWrites, i)
    /\ last' = Step("PageDecisionThen", pageWrites[i].phase = "ok", FALSE)
    /\ UNCHANGED <<pageLoads, pageGenderWrite>>
    /\ UNCHANGED <<mode, queueVars, status, budget, mounted, genderVars>>

\* handleGenderChange of page.tsx up to its await; the select is disabled
\* while genderUpdateStatus is 'saving'.
PageHandleGenderChange ==
    /\ isVerifying
    /\ pageCurrentUser # NoUser
    /\ pageGenderWrite = NoUser
    /\ Deviation("gender")
    /\ pageGenderWrite' = pageCurrentUser
    /\ last' = Step("PageHandleGenderChange", TRUE, FALSE)
    /\ UNCHANGED <<pendingUsers, pageCurrentUser, isVerifying, pageLoads, pageWrites>>
    /\ UNCHANGED <<mode, queueVars, status, mounted, genderVars>>

\* handleGenderChange of page.tsx after its await.
PageGenderChangeSettles(ok) ==
    /\ pageGenderWrite # NoUser
    /\ DeviationIf(~ok, "fault")
    /\ pageGenderWrite' = NoUser
    /\ pageCurrentUser' = IF ok THEN pageGenderWrite ELSE pageCurrentUser
    /\ last' = Step("PageGenderChangeSettles", ok, FALSE)
    /\ UNCHANGED <<pendingUsers, isVerifying, pageLoads, pageWrites>>
    /\ UNCHANGED <<mode, queueVars, status, mounted, genderVars>>

Next ==
    \/ \E ok \in BOOLEAN : RefreshTick(ok)
    \/ \E i \in 1..Len(fetches), ok \in BOOLEAN : FetchPendingUsers(i, ok)
    \/ \E i \in 1..Len(fetches) : LoadNextBatch(i)
    \/ StartVerification
    \/ BackToDashboard
    \/ \E decision \in {"verified", "rejected"} : HandleDecision(decision)
    \/ \E i \in 1..Len(writes), ok \in BOOLEAN : DecisionUpdate(i, ok)
    \/ \E i \in 1..Len(writes) : DecisionThen(i)
    \/ HandleGenderChange
    \/ \E ok \in BOOLEAN : GenderChangeSettles(ok)
    \/ \E id \in OtherIds : RemoteGain(id)
    \/ \E id \in OtherIds : RemoteLose(id)

Spec == Init /\ [][Next]_vars

\* The 45-entry scenario: the plain run.
NextScenario ==
    \/ \E i \in 1..Len(fetches), ok \in BOOLEAN : FetchPendingUsers(i, ok)
    \/ \E i \in 1..Len(fetches) : LoadNextBatch(i)
    \/ StartVerification
    \/ \E decision \in {"verified", "rejected"} : HandleDecision(decision)
    \/ \E i \in 1..Len(writes), ok \in BOOLEAN : DecisionUpdate(i, ok)
    \/ \E i \in 1..Len(writes) : DecisionThen(i)

SpecScenario == InitScenario /\ [][NextScenario]_vars

\* The queue under refresh, with no decision taken.
NextRefresh ==
    \/ \E ok \in BOOLEAN : RefreshTick(ok)
    \/ \E i \in 1..Len(fetches), ok \in BOOLEAN : FetchPendingUsers(i, ok)
    \/ \E i \in 1..Len(fetches) : LoadNextBatch(i)
    \/ StartVerification
    \/ BackToDashboard
    \/ \E id \in OtherIds : RemoteGain(id)
    \/ \E id \in OtherIds : RemoteLose(id)

SpecRefresh == InitRefresh /\ [][NextRefresh]_vars

\* The small RecordSource reviewed to the end, with refresh ticks, failed
\* requests, repeated clicks and teardown of the page.
InitReview ==
    /\ InitCommon
    /\ status = [i \in Ids |-> IF i \in SmallIds THEN "pending" ELSE "absent"]
    /\ budget = [left |-> MaxDeviations - 2, kinds |-> {"tick", "fault", "reject", "again"}]

NextReview ==
    \/ \E ok \in BOOLEAN : RefreshTick(ok)
    \/ \E i \in 1..Len(fetches), ok \in BOOLEAN : FetchPendingUsers(i, ok)
    \/ \E i \in 1..Len(fetches) : LoadNextBatch(i)
    \/ StartVerification
    \/ \E decision \in {"verified", "rejected"} : HandleDecision(decision)
    \/ \E i \in 1..Len(writes), ok \in BOOLEAN : DecisionUpdate(i, ok)
    \/ \E i \in 1..Len(writes) : DecisionThen(i)
    \/ Unmount
    \/ \E i \in 1..Len(fetches) : LoadNextBatchUnmounted(i)
    \/ \E i \in 1..Len(writes) : DecisionThenUnmounted(i)

SpecReview == InitReview /\ [][NextReview]_vars

\* The component of app/dashboard/page.tsx over the small RecordSource, after
\* its first render (loadPendingUsers called by the mount effect).
InitPage ==
    /\ mode = "dashboard"
    /\ allPendingUsers = <<>> /\ queueUsers = <<>> /\ totalPending = 0 /\ hasMore = TRUE
    /\ currentUser = NoUser /\ isUserVerifying = FALSE
    /\ fetches = <<>> /\ writes = <<>> /\ genderWrite = NoUser
    /\ decided = {} /\ segment = [base |-> 0, ids |-> {}, clean |-> TRUE]
    /\ mounted = FALSE
    /\ genderUsers = <<>> /\ filteredGenderUsers = <<>>
    /\ sortOrder = "desc" /\ genderFilter = "all" /\ currentPage = 1 /\ totalUnknown = 0
    /\ userFetches = <<>> /\ genderUpdates = <<>>
    /\ gender = InitialGender
    /\ pendingUsers = <<>> /\ pageCurrentUser = NoUser /\ isVerifying = FALSE
    /\ pageLoads = <<LoadPendingUsersCall>>
    /\ pageGenderWrite = NoUser /\ pageWrites = <<>>
    /\ status = [i \in Ids |-> IF i \in SmallIds THEN "pending" ELSE "absent"]
    /\ budget = [left |-> MaxDeviations - 1,
                 kinds |-> {"tick", "fault", "reject", "again", "back", "gender"}]
    /\ last = Step("mount", TRUE, FALSE)

NextPage ==
    \/ PageTick
    \/ \E i \in 1..Len(pageLoads), ok \in BOOLEAN : PageQuery(i, ok)
    \/ \E i \in 1..Len(pageLoads) : LoadPendingUsers(i)
    \/ PageStartVerification
    \/ PageBack
    \/ \E decision \in {"verified", "rejected"} : PageHandleDecision(decision)
    \/ \E i \in 1..Len(pageWrites), ok \in BOOLEAN : PageDecisionUpdate(i, ok)
    \/ \E i \in 1..Len(pageWrites) : PageDecisionThen(i)
    \/ PageHandleGenderChange
    \/ \E ok \in BOOLEAN : PageGenderChangeSettles(ok)

SpecPage == InitPage /\ [][NextPage]_vars

\* The gender review screen over MaxUsers records, no record pending:
\* browsing (filter, sort, pages, leaving and entering the screen).
InitGenderView ==
    /\ InitComponent
    /\ status = [i \in Ids |-> "absent"]
    /\ budget = [left |-> MaxDeviations - 1, kinds |-> {"enter", "fault"}]

NextGenderView ==
    \/ VerifyGenders
    \/ GenderBack
    \/ \E i \in 1..Len(userFetches), ok \in BOOLEAN : UserFetchAnswer(i, ok)
    \/ \E i \in 1..Len(userFetches) : UserFetchThen(i)
    \/ \E filter \in {"all", "unknown", "Male", "Female"} : SetGenderFilter(filter)
    \/ \E order \in {"desc", "asc"} : SetSortOrder(order)
    \/ PreviousPageClick
    \/ NextPageClick

SpecGenderView == InitGenderView /\ [][NextGenderView]_vars

\* The gender review screen over MaxUsers records, no record pending:
\* gender updates on the pages of the filtered view.
InitGenderUpdate ==
    /\ InitCommon
    /\ status = [i \in Ids |-> "absent"]
    /\ budget = [left |-> MaxDeviations - 1, kinds |-> {"enter", "update", "fault"}]

NextGenderUpdate ==
    \/ VerifyGenders
    \/ \E i \in 1..Len(userFetches), ok \in BOOLEAN : UserFetchAnswer(i, ok)
    \/ \E i \in 1..Len(userFetches) : UserFetchThen(i)
    \/ \E filter \in {"all", "unknown", "Male", "Female"} : SetGenderFilter(filter)
    \/ PreviousPageClick
    \/ NextPageClick
    \/ \E k \in {1, Len(PaginatedUsers)}, newGender \in {"Male", "Female"} :
           HandleGenderUpdate(k, newGender)
    \/ \E i \in 1..Len(genderUpdates), ok \in BOOLEAN : GenderUpdateAnswer(i, ok)
    \/ \E i \in 1..Len(genderUpdates) : HandleGenderUpdateSettles(i)

SpecGenderUpdate == InitGenderUpdate /\ [][NextGenderUpdate]_vars

(***************************************************************************)
(* Claims                                                                  *)
(***************************************************************************)

\* C1: a periodic refresh whose result is applied while the operator is in
\* review mode leaves the identifier sequence of ActiveQueue unchanged.
C1_RefreshWhileReviewingKeepsQueue ==
    [][\A i \in 1..Len(fetches) :
          (LoadNextBatch(i) /\ fetches[i].refresh /\ isUserVerifying)
              => queueUsers' = queueUsers]_vars

\* C2: ActiveQueue never contains an identifier more than once.
C2_QueueHasNoDuplicates == Cardinality(Range(queueUsers)) = Len(queueUsers)

\* C3: the callback of a decision whose write failed changes nothing locally:
\* ActiveQueue, the total-pending count, the displayed entry and review mode
\* stay as they were.
C3_FailedWriteChangesNothing ==
    [][\A i \in 1..Len(writes) :
          (DecisionThen(i) /\ writes[i].phase = "error")
              => UNCHANGED <<queueUsers, totalPending, currentUser, isUserVerifying>>]_vars

\* C4: an identifier whose decision has been confirmed is never in ActiveQueue
\* again: no appendNextBatch step brings a decided identifier into the queue.
C4_AppendNeverReadmitsDecided ==
    [][\A i \in 1..Len(fetches) :
          (LoadNextBatch(i) /\ ~fetches[i].refresh)
              => (decided \cap Range(queueUsers')) \subseteq Range(queueUsers)]_vars

\* C5: applying the result of a failed snapshot fetch does not clear or shrink
\* ActiveQueue; it only sets the total-pending count to zero.
C5_FailedFetchKeepsQueue ==
    [][\A i \in 1..Len(fetches) :
          (LoadNextBatch(i) /\ ~fetches[i].ok)
              => (Len(queueUsers') >= Len(queueUsers) /\ totalPending' = 0)]_vars

\* C6: after decisions were confirmed for N distinct identifiers, each in
\* ActiveQueue when confirmed, with no fetch result applied in between and no
\* other decision callback, the total-pending count is max(0, old count - N)
\* and none of the N identifiers is in ActiveQueue.
C6_ConfirmedDecisionsCountAndLeave ==
    segment.clean =>
        /\ totalPending = Max2(0, segment.base - Cardinality(segment.ids))
        /\ segment.ids \cap Range(queueUsers) = {}

\* C7: a refresh whose result is applied while the operator is not reviewing
\* sets ActiveQueue to exactly the first min(20, snapshot length) entries of
\* the newly fetched BackingSnapshot, in snapshot order.
C7_RefreshReplacesQueue ==
    [][\A i \in 1..Len(fetches) :
          (LoadNextBatch(i) /\ fetches[i].refresh /\ ~isUserVerifying)
              => /\ allPendingUsers' = fetches[i].users
                 /\ Len(queueUsers') = Min2(20, Len(allPendingUsers'))
                 /\ \A k \in 1..Len(queueUsers') : queueUsers'[k] = allPendingUsers'[k]]_vars

\* C7 witness: a refresh was applied outside review mode to a snapshot longer
\* than a batch, and the queue is its first 20 entries.
C7_Witness ==
    /\ last.op = "LoadNextBatch" /\ last.refresh /\ last.ok
    /\ ~isUserVerifying
    /\ Len(allPendingUsers) > 20
    /\ Len(queueUsers) = 20
    /\ queueUsers[20] = allPendingUsers[20]

\* C8: the length of ActiveQueue is at most the length of BackingSnapshot.
C8_QueueWithinSnapshot == Len(queueUsers) <= Len(allPendingUsers)

\* Entries of BackingSnapshot beyond ActiveQueue: neither queued nor decided.
BeyondQueue == Range(allPendingUsers) \ (Range(queueUsers) \cup decided)

\* C9: whenever the operator is reviewing, ActiveQueue holds at most 3 entries
\* and snapshot entries remain beyond the queue, an appendNextBatch has been
\* invoked and is under way.
C9_LowQueueInvokesAppend ==
    (isUserVerifying /\ Len(queueUsers) <= LOAD_MORE_THRESHOLD /\ BeyondQueue # {})
        => \E i \in 1..Len(fetches) : ~fetches[i].refresh

\* Entries of BackingSnapshot that are not in ActiveQueue.
Unconsumed == Range(allPendingUsers) \ Range(queueUsers)

C12_DisplayedIsHeadAfterDecision ==
    [][\A i \in 1..Len(writes) :
          (DecisionThen(i) /\ writes[i].phase = "ok")
              => IF Len(queueUsers') > 0
                 THEN currentUser' = queueUsers'[1]
                 ELSE currentUser' = NoUser /\ ~isUserVerifying' /\ mode' = "dashboard"]_vars

\* C12 witness: the last entry of a queue of several has just been decided;
\* the queue is empty, nothing is displayed and the dashboard is shown.
C12_Witness ==
    /\ last.op = "DecisionThen" /\ last.ok
    /\ Cardinality(decided) >= 2
    /\ queueUsers = <<>>
    /\ currentUser = NoUser /\ ~isUserVerifying /\ mode = "dashboard"

\* C13: whenever no fetch is in flight, hasMore is true if and only if
\* BackingSnapshot holds an entry that is neither in ActiveQueue nor decided.
C13_HasMoreIffEntriesBeyondQueue ==
    fetches = <<>> => (hasMore <=> BeyondQueue # {})

\* C20: when a decision is confirmed, ActiveQueue loses only the decided
\* identifier: the other entries it held just before the confirmation are
\* still in it, in the same order (entries appended after the click included).
C20_ConfirmationRemovesOnlyDecided ==
    [][\A i \in 1..Len(writes) :
          (DecisionThen(i) /\ writes[i].phase = "ok")
              => queueUsers' = RemoveId(queueUsers, writes[i].id)]_vars

\* The values of users.is_verified: verified, unverified, pending, or no
\* value ("absent" stands for a record that is unset or does not exist).
VerificationStatuses == {"verified", "unverified", "pending", "absent"}

\* C15: decision writes set the status to verified or unverified only, so the
\* status of every record is always verified, unverified, pending or unset.
C15_StatusStaysInDomain == \A id \in Ids : status[id] \in VerificationStatuses

\* The gender the in-memory dataset holds for a record.
GenderInDataset(userId) ==
    LET hits == {k \in 1..Len(genderUsers) : genderUsers[k].id = userId}
    IN  IF hits = {} THEN NoGender ELSE genderUsers[CHOOSE k \in hits : TRUE].gender

\* C14: a successful gender update lowers the unknown-gender count by one
\* (not below zero) if the record had no gender before the update, and leaves
\* the count as it was if the record already had a gender.
C14_DecrementOnlyIfUnset ==
    [][\A i \in 1..Len(genderUpdates) :
          (HandleGenderUpdateSettles(i) /\ genderUpdates[i].phase = "ok")
          => totalUnknown' = IF Unset(GenderInDataset(genderUpdates[i].id))
                             THEN Max2(0, totalUnknown - 1)
                             ELSE totalUnknown]_vars

\* C16 as stated: the current page p always satisfies
\* 1 <= p <= ceil(derived view length / 20), the empty view included.
C16_PageWithinPages ==
    /\ 1 <= currentPage
    /\ currentPage <= TotalPages(filteredGenderUsers)

\* C16: the current page p always satisfies
\* 1 <= p <= max(1, ceil(derived view length / 20)): it is 1 while the view
\* is empty and never beyond the last page otherwise.
C16_PageWithinPagesOrOne ==
    /\ 1 <= currentPage
    /\ currentPage <= Max2(1, TotalPages(filteredGenderUsers))

C16_Witness ==
    /\ last.op = "HandleGenderUpdateSettles"
    /\ last.ok
    /\ last.page = 2
    /\ currentPage = 1
    /\ TotalPages(filteredGenderUsers) = 2

\* C17: every change of the filter and every change of the sort direction
\* leaves the current page at 1 once the derived view has been recomputed,
\* whatever page was shown before.
C17_FilterOrSortResetsPage ==
    [][/\ \A filter \in {"all", "unknown", "Male", "Female"} :
             SetGenderFilter(filter)
             => /\ currentPage' = 1
                /\ filteredGenderUsers' = DerivedView(genderUsers, filter, sortOrder)
       /\ \A order \in {"desc", "asc"} :
             SetSortOrder(order)
             => /\ currentPage' = 1
                /\ filteredGenderUsers' = DerivedView(genderUsers, genderFilter, order)]_vars

C17_Witness ==
    /\ last.op = "SetSortOrder"
    /\ last.page = 2
    /\ sortOrder = "asc"
    /\ currentPage = 1
    /\ Len(filteredGenderUsers) > PAGE_SIZE

\* The records of a sequence, as a set.
Records(users) == {users[k] : k \in 1..Len(users)}

\* C18: the derived view holds, each once, exactly the records of the dataset
\* the filter asks for: under "unknown" those with no gender, under a named
\* gender those whose gender equals it, under "all" every record; sorting
\* adds, drops and duplicates nothing.
C18_ViewIsExactSubset ==
    /\ Records(filteredGenderUsers) =
          CASE genderFilter = "all" -> Records(genderUsers)
            [] genderFilter = "unknown" ->
                 {u \in Records(genderUsers) : u.gender \in {NoGender, ""}}
            [] OTHER -> {u \in Records(genderUsers) : u.gender = genderFilter}
    /\ Cardinality(Records(filteredGenderUsers)) = Len(filteredGenderUsers)

C18_Witness ==
    /\ last.op = "SetSortOrder"
    /\ sortOrder = "asc"
    /\ genderFilter = "unknown"
    /\ gender # InitialGender
    /\ \E u \in Records(filteredGenderUsers) : u.gender = ""
    /\ \E u \in Records(filteredGenderUsers) : u.gender = NoGender
    /\ Len(filteredGenderUsers) < Len(genderUsers)

\* C19: when the gender write of an update fails, the dataset, the derived
\* view, the current page and the unknown-gender count stay as they were.
C19_FailedUpdateChangesNothing ==
    [][\A i \in 1..Len(genderUpdates) :
          (HandleGenderUpdateSettles(i) /\ genderUpdates[i].phase = "error")
          => UNCHANGED <<genderUsers, filteredGenderUsers, currentPage, totalUnknown>>]_vars

C19_Witness ==
    /\ last.op = "HandleGenderUpdateSettles"
    /\ ~last.ok
    /\ last.page = 2
    /\ currentPage = 2
    /\ totalUnknown > 0
    /\ genderUsers = AllUsers(InitialGender)
    /\ gender = InitialGender

\* C21: whenever review mode is active, an entry is displayed and it is the
\* entry at the head of the queue, whatever refreshes, appends and decisions
\* came before.
C21_DisplayedIsHeadWhileReviewing ==
    isUserVerifying =>
        /\ currentUser # NoUser
        /\ queueUsers # <<>>
        /\ currentUser = queueUsers[1]

\* C22: every successful gender update leaves the current page at 1 with the
\* derived view recomputed from the patched dataset, leaves the filter and
\* the sort direction as they were, and changes nothing in the dataset but
\* the gender of the record with the updated identifier.
C22_SuccessfulUpdateFrame ==
    [][\A i \in 1..Len(genderUpdates) :
          (HandleGenderUpdateSettles(i) /\ genderUpdates[i].phase = "ok")
          => /\ currentPage' = 1
             /\ UNCHANGED <<genderFilter, sortOrder>>
             /\ filteredGenderUsers' = DerivedView(genderUsers', genderFilter, sortOrder)
             /\ Len(genderUsers') = Len(genderUsers)
             /\ \A k \in 1..Len(genderUsers) :
                   /\ genderUsers'[k].id = genderUsers[k].id
                   /\ genderUsers'[k].gender =
                         IF genderUsers[k].id = genderUpdates[i].id
                         THEN genderUpdates[i].gender
                         ELSE genderUsers[k].gender]_vars

C22_Witness ==
    /\ last.op = "HandleGenderUpdateSettles"
    /\ last.ok
    /\ last.page = 2
    /\ currentPage = 1
    /\ genderFilter = "all"
    /\ Len(genderUsers) = MaxUsers
    /\ Cardinality({k \in 1..Len(genderUsers) :
                       genderUsers[k].gender # InitialGender[genderUsers[k].id]}) = 1

====
